---- MODULE Spec2Model ----
(***************************************************************************)
(* Model of the multi-phase test sessions of the ASD behavioural analysis  *)
(* platform: the four camera test pages (face recognition, social          *)
(* attention, visual pattern, motion tracking), the gaze assessment page   *)
(* and the demo face test page, together with the frame processors they    *)
(* drive.                                                                  *)
(*                                                                         *)
(* A page is a Streamlit script: every user interaction re-runs the whole  *)
(* script in the page thread, and a button handler is the part of one run  *)
(* that executes when the button's click is delivered.  A click is made on *)
(* what the browser displays, i.e. on the buttons as the last run rendered *)
(* them (shown, shown_done); the handler then tests the session state as   *)
(* it is now.  Camera frames are delivered to the processor's recv by the  *)
(* capture thread of streamlit-webrtc (async_processing=True).             *)
(***************************************************************************)
EXTENDS Integers, Sequences, FiniteSets, TLC

VARIABLES
    kind,           \* test type of the session (which page is modelled)
    test_phase,     \* st.session_state.<x>_test_phase / current_task_index
    session_active, \* st.session_state.<x>_test_active / assessment_active
    test_results,   \* st.session_state.<x>_test_results / task_data (key -> result)
    start_time_set, \* demo_start_time / task_start_time is not None
    due,            \* time elapsed since the phase was started >= its duration
    shown,          \* the active flag as the browser last rendered it (Start disabled)
    shown_done,     \* gaze page: task_completed as last rendered (Next enabled)
    hasProc,        \* webrtc_ctx.video_processor is not None
    proc,           \* the attached frame processor instance
    nframes,        \* number of frames delivered so far (bounded)
    fedN,           \* frames delivered while the processor was collecting, since its last start
    fedD,           \* ... of which contained a detected face
    last,           \* the operation performed by the last step
    rpc,            \* capture thread: position inside recv
    inflight,       \* capture thread: the sample recv is working on
    ppc,            \* page thread: position inside the Stop handler
    analyzer,       \* the GazeAnalyzer instance (calibration, gaze history)
    calc            \* the analysis function last evaluated: its inputs and its result

vars == <<kind, test_phase, session_active, test_results, start_time_set, due,
          shown, shown_done, hasProc, proc, nframes, fedN, fedD, last,
          rpc, inflight, ppc, analyzer, calc>>

\* the variables the page sessions do not touch
others == <<analyzer, calc>>

-----------------------------------------------------------------------------
(* Bounds *)

MaxFrames == 3

-----------------------------------------------------------------------------
(* Static configuration *)

CameraKinds == {"face", "social", "pattern", "motion"}
Kinds == CameraKinds \cup {"gaze", "demo"}

\* default selection of the gaze assessment: available_tasks[:2]
GazeTasks == 2

\* len(test_phases) / len(test_scenarios) / len(pattern_tests) / len(motion_tests) / len(selected_tasks)
NumPhases(k) ==
    CASE k = "face"    -> 3
      [] k = "social"  -> 3
      [] k = "pattern" -> 3
      [] k = "motion"  -> 4
      [] k = "gaze"    -> GazeTasks
      [] k = "demo"    -> 3

\* "Process every 3rd frame" / "every 2nd frame"
SubSample(k) ==
    CASE k = "face"    -> 3
      [] k = "social"  -> 2
      [] k = "pattern" -> 3
      [] k = "motion"  -> 2
      [] OTHER         -> 1

\* Gaze points a frame can produce (pixel coordinates)
Points == { <<100, 200>>, <<500, 350>>, <<400, 50>> }

\* Region configurations; configuration 0 is the one __init__ leaves
\* (no regions), configuration p+1 is the one the page installs for phase p.
\* r1: face / social / pattern rectangles, r2: object / non-social / random.
Regions(k, c) ==
    CASE k = "face" /\ c = 1 -> [r1 |-> << <<50, 100, 350, 400>> >>,
                                 r2 |-> << <<450, 100, 750, 400>> >>]
      [] k = "face" /\ c = 2 -> [r1 |-> << <<0, 0, 800, 600>> >>, r2 |-> << >>]
      [] k = "face" /\ c = 3 -> [r1 |-> << <<300, 200, 500, 300>> >>, r2 |-> << >>]
      [] k = "social" /\ c = 1 -> [r1 |-> << <<50, 100, 350, 400>> >>,
                                   r2 |-> << <<450, 100, 750, 400>> >>]
      [] k = "social" /\ c = 2 -> [r1 |-> << <<200, 300, 350, 450>>, <<450, 300, 600, 450>> >>,
                                   r2 |-> << <<50, 50, 150, 150>>, <<650, 50, 750, 150>> >>]
      [] k = "social" /\ c = 3 -> [r1 |-> << <<100, 150, 200, 250>>, <<250, 150, 350, 250>>,
                                            <<400, 150, 500, 250>>, <<550, 150, 650, 250>> >>,
                                   r2 |-> << <<300, 350, 500, 450>> >>]
      [] k = "pattern" /\ c = 1 -> [r1 |-> << <<50, 100, 350, 350>> >>,
                                    r2 |-> << <<450, 100, 750, 350>> >>]
      [] k = "pattern" /\ c = 2 -> [r1 |-> << <<50, 150, 350, 350>> >>,
                                    r2 |-> << <<450, 150, 750, 350>> >>]
      [] k = "pattern" /\ c = 3 -> [r1 |-> << <<50, 100, 350, 350>> >>,
                                    r2 |-> << <<450, 100, 750, 350>> >>]
      [] OTHER -> [r1 |-> << >>, r2 |-> << >>]

\* region[0] <= gaze_x <= region[2] and region[1] <= gaze_y <= region[3]
InRegion(region, pt) ==
    /\ region[1] <= pt[1] /\ pt[1] <= region[3]
    /\ region[2] <= pt[2] /\ pt[2] <= region[4]

\* for region in regions: if inside: counter += 1; break
HitsAny(regions, pt) == \E i \in DOMAIN regions : InRegion(regions[i], pt)

-----------------------------------------------------------------------------
(* The frame processor *)

\* <X>Processor.__init__
InitProc ==
    [test_active |-> FALSE, frame_count |-> 0, gaze_data |-> << >>,
     total_frames |-> 0, face_detected_frames |-> 0,
     c1 |-> 0, c2 |-> 0, cfg |-> 0]

\* set_stimulus / set_scenario / set_pattern / set_motion_type
set_stimulus(p, c) == [p EXCEPT !.cfg = c]

\* start_test / start_task / start_demo
start_test(p) ==
    [p EXCEPT !.test_active = TRUE, !.frame_count = 0, !.gaze_data = << >>,
              !.total_frames = 0, !.face_detected_frames = 0,
              !.c1 = 0, !.c2 = 0]

EmptyResult ==
    [empty |-> TRUE, points |-> 0, total |-> 0, detected |-> 0,
     c1 |-> 0, c2 |-> 0, attention |-> FALSE]

\* number of stored gaze samples lying in one of the rectangles
RECURSIVE CountIn(_, _)
CountIn(regions, data) ==
    IF data = << >> THEN 0
    ELSE (IF HitsAny(regions, Head(data).pt) THEN 1 ELSE 0) + CountIn(regions, Tail(data))

\* get_results without the "if not self.gaze_data: return {}" test
get_results_NoEmptyTest(k, p) ==
    IF k = "face" THEN
        LET both == Regions(k, p.cfg).r1 # << >> /\ Regions(k, p.cfg).r2 # << >> IN
        [empty |-> FALSE, points |-> Len(p.gaze_data),
         total |-> p.total_frames, detected |-> p.face_detected_frames,
         c1 |-> IF both THEN CountIn(Regions(k, p.cfg).r1, p.gaze_data) ELSE 0,
         c2 |-> IF both THEN CountIn(Regions(k, p.cfg).r2, p.gaze_data) ELSE 0,
         attention |-> both]
    ELSE
        [empty |-> FALSE, points |-> Len(p.gaze_data), total |-> 0, detected |-> 0,
         c1 |-> p.c1, c2 |-> p.c2, attention |-> FALSE]

\* get_results: {} when no gaze sample was stored, else the counters
get_results(k, p) ==
    IF p.gaze_data = << >> THEN EmptyResult
    ELSE IF k = "face" THEN
        LET both == Regions(k, p.cfg).r1 # << >> /\ Regions(k, p.cfg).r2 # << >> IN
        [empty |-> FALSE, points |-> Len(p.gaze_data),
         total |-> p.total_frames, detected |-> p.face_detected_frames,
         c1 |-> IF both THEN CountIn(Regions(k, p.cfg).r1, p.gaze_data) ELSE 0,
         c2 |-> IF both THEN CountIn(Regions(k, p.cfg).r2, p.gaze_data) ELSE 0,
         attention |-> both]
    ELSE
        [empty |-> FALSE, points |-> Len(p.gaze_data), total |-> 0, detected |-> 0,
         c1 |-> p.c1, c2 |-> p.c2, attention |-> FALSE]

\* stop_test: test_active = False; return get_results()
stop_test(p) == [p EXCEPT !.test_active = FALSE]

\* The sample recv stores for a processed frame with a detected face.
\* cfg and ph record which region configuration classified the sample and
\* which phase the session was in (observation only).
Sample(k, p, pt, ph) ==
    [pt |-> pt,
     hit1 |-> k \in {"social", "pattern"} /\ HitsAny(Regions(k, p.cfg).r1, pt),
     hit2 |-> k \in {"social", "pattern"} /\ HitsAny(Regions(k, p.cfg).r2, pt),
     cfg |-> IF k \in {"social", "pattern"} THEN p.cfg ELSE 0,
     ph |-> ph]

\* recv(frame) of the four camera processors, for one frame in which a face
\* is (face) or is not detected and whose gaze point is pt
recv(k, p, face, pt, ph) ==
    LET p1 == IF k = "face" THEN [p EXCEPT !.total_frames = @ + 1] ELSE p IN
    IF ~p.test_active THEN p1
    ELSE IF p.frame_count % SubSample(k) = 0 /\ face THEN
        LET s == Sample(k, p, pt, ph) IN
        [p1 EXCEPT !.face_detected_frames = IF k = "face" THEN @ + 1 ELSE @,
                   !.c1 = IF k = "motion" THEN @ + 1
                          ELSE IF s.hit1 THEN @ + 1 ELSE @,
                   !.c2 = IF k = "motion"
                          THEN (IF Len(p.gaze_data) > 5 THEN @ + 1 ELSE @)
                          ELSE IF s.hit2 THEN @ + 1 ELSE @,
                   !.gaze_data = Append(@, s),
                   !.frame_count = @ + 1]
    ELSE [p1 EXCEPT !.frame_count = @ + 1]

-----------------------------------------------------------------------------
(* The session (st.session_state) and the page script *)

NoResults == [k \in {} |-> EmptyResult]

\* the capture thread is not inside recv
NoSample == [pt |-> <<0, 0>>, hit1 |-> FALSE, hit2 |-> FALSE, cfg |-> 0, ph |-> 0]

\* variant: every result is stored under the key of the first phase
Store_FirstKey(res, key, r) == [k \in DOMAIN res \cup {0} |-> IF k = 0 THEN r ELSE res[k]]

\* st.session_state.<x>_test_results[key] = results
Store(res, key, r) == [k \in DOMAIN res \cup {key} |-> IF k = key THEN r ELSE res[k]]

\* What a handler tells the user: st.success(...) at the end of the guarded
\* block of a Start or Stop handler, nothing when the block is skipped
Message(name, acted) ==
    IF acted /\ (name = "stop" \/ (name = "start" /\ kind # "gaze") \/ (name = "rerun" /\ kind = "demo"))
    THEN "success"
    ELSE "none"

Op(name, acted) ==
    [op |-> name, pre |-> session_active, acted |-> acted, msg |-> Message(name, acted)]

InitSession ==
    /\ kind \in Kinds
    /\ test_phase = 0
    /\ session_active = FALSE
    /\ test_results = NoResults
    /\ start_time_set = FALSE
    /\ due = FALSE
    /\ shown = FALSE
    /\ shown_done = FALSE
    /\ hasProc = (kind = "demo")
    /\ proc = InitProc
    /\ nframes = 0
    /\ fedN = 0
    /\ fedD = 0
    /\ last = [op |-> "init", pre |-> FALSE, acted |-> FALSE, msg |-> "none"]
    /\ rpc = "idle"
    /\ inflight = NoSample
    /\ ppc = "idle"

\* GazeAnalyzer.__init__: empty histories, not calibrated, offset [0, 0]
\* (a number is kept as a fraction <<numerator, denominator>>)
InitAnalyzer ==
    [gaze_history |-> << >>, eye_contact_history |-> << >>, is_calibrated |-> FALSE,
     gaze_offset |-> << <<0, 1>>, <<0, 1>> >>]

\* no analysis function has been evaluated
NoCall == [fn |-> "none"]

Init ==
    /\ InitSession
    /\ analyzer = InitAnalyzer
    /\ calc = NoCall

\* The part of a camera page's script that runs before the buttons: while the
\* session is active the stimulus of the current phase is displayed, and
\* displaying it installs its regions in the processor.
DisplayStimulus(p) ==
    IF session_active /\ test_phase < NumPhases(kind) /\ hasProc
    THEN set_stimulus(p, test_phase + 1)
    ELSE p

\* A run of a camera page's script with no button pressed
RerunCamera ==
    /\ kind \in CameraKinds
    /\ ppc = "idle"
    /\ proc' = DisplayStimulus(proc)
    /\ shown' = session_active
    /\ last' = Op("rerun", FALSE)
    /\ UNCHANGED <<kind, test_phase, session_active, test_results, start_time_set, due,
                   shown_done, hasProc, nframes, fedN, fedD, rpc, inflight, ppc>>
    /\ UNCHANGED others

\* StartClickCamera without the test of the cursor against the phase count
StartClickCamera_NoCursorTest ==
    /\ kind \in CameraKinds
    /\ ppc = "idle"
    /\ ~shown
    /\ shown' = session_active
    /\ IF hasProc
       THEN /\ session_active' = TRUE
            /\ proc' = start_test(DisplayStimulus(proc))
            /\ fedN' = 0
            /\ fedD' = 0
            /\ due' = FALSE
            /\ last' = Op("start", TRUE)
       ELSE /\ proc' = DisplayStimulus(proc)
            /\ last' = Op("start", FALSE)
            /\ UNCHANGED <<session_active, fedN, fedD, due>>
    /\ UNCHANGED <<kind, test_phase, test_results, start_time_set,
                   shown_done, hasProc, nframes, rpc, inflight, ppc>>
    /\ UNCHANGED others

\* "Start Phase" of a camera page
StartClickCamera ==
    /\ kind \in CameraKinds
    /\ ppc = "idle"
    /\ ~shown
    /\ shown' = session_active
    /\ IF hasProc /\ test_phase < NumPhases(kind)
       THEN /\ session_active' = TRUE
            /\ proc' = start_test(DisplayStimulus(proc))
            /\ fedN' = 0
            /\ fedD' = 0
            /\ due' = FALSE
            /\ last' = Op("start", TRUE)
       ELSE /\ proc' = DisplayStimulus(proc)
            /\ last' = Op("start", FALSE)
            /\ UNCHANGED <<session_active, fedN, fedD, due>>
    /\ UNCHANGED <<kind, test_phase, test_results, start_time_set,
                   shown_done, hasProc, nframes, rpc, inflight, ppc>>
    /\ UNCHANGED others

\* StopClickCamera with the cursor increment moved out of the guarded block
StopClickCamera_AdvanceUnguarded ==
    /\ kind \in CameraKinds
    /\ ppc = "idle"
    /\ shown
    /\ shown' = session_active
    /\ test_phase' = test_phase + 1
    /\ IF hasProc /\ session_active
       THEN /\ proc' = stop_test(DisplayStimulus(proc))
            /\ test_results' = Store(test_results, test_phase, get_results(kind, proc'))
            /\ session_active' = FALSE
            /\ last' = Op("stop", TRUE)
       ELSE /\ proc' = DisplayStimulus(proc)
            /\ last' = Op("stop", FALSE)
            /\ UNCHANGED <<test_results, session_active>>
    /\ UNCHANGED <<kind, start_time_set, due, shown_done, hasProc, nframes,
                   fedN, fedD, rpc, inflight, ppc>>
    /\ UNCHANGED others

\* "Stop Phase" of a camera page
StopClickCamera ==
    /\ kind \in CameraKinds
    /\ ppc = "idle"
    /\ shown
    /\ shown' = session_active
    /\ IF hasProc /\ session_active
       THEN /\ proc' = stop_test(DisplayStimulus(proc))
            /\ test_results' = Store(test_results, test_phase, get_results(kind, proc'))
            /\ session_active' = FALSE
            /\ test_phase' = test_phase + 1
            /\ last' = Op("stop", TRUE)
       ELSE /\ proc' = DisplayStimulus(proc)
            /\ last' = Op("stop", FALSE)
            /\ UNCHANGED <<test_results, session_active, test_phase>>
    /\ UNCHANGED <<kind, start_time_set, due, shown_done, hasProc, nframes,
                   fedN, fedD, rpc, inflight, ppc>>
    /\ UNCHANGED others

\* The capture thread delivers one frame to recv
Frame ==
    /\ kind \in CameraKinds
    /\ hasProc
    /\ rpc = "idle"
    /\ ppc = "idle"
    /\ nframes < MaxFrames
    /\ \E face \in BOOLEAN, pt \in Points :
          /\ proc' = recv(kind, proc, face, pt, test_phase)
          /\ fedN' = IF proc.test_active THEN fedN + 1 ELSE fedN
          /\ fedD' = IF proc.test_active /\ face THEN fedD + 1 ELSE fedD
    /\ nframes' = nframes + 1
    /\ last' = Op("frame", proc.test_active)
    /\ UNCHANGED <<kind, test_phase, session_active, test_results, start_time_set, due,
                   shown, shown_done, hasProc, rpc, inflight, ppc>>
    /\ UNCHANGED others

\* The stream starts (or restarts): video_processor_factory builds a fresh processor
ProcNew ==
    /\ kind # "demo"
    /\ rpc = "idle"
    /\ ppc = "idle"
    /\ hasProc' = TRUE
    /\ proc' = InitProc
    /\ fedN' = 0
    /\ fedD' = 0
    /\ last' = Op("procnew", TRUE)
    /\ UNCHANGED <<kind, test_phase, session_active, test_results, start_time_set, due,
                   shown, shown_done, nframes, rpc, inflight, ppc>>
    /\ UNCHANGED others

\* The stream stops: webrtc_ctx.video_processor is None
ProcLost ==
    /\ kind # "demo"
    /\ hasProc
    /\ rpc = "idle"
    /\ ppc = "idle"
    /\ hasProc' = FALSE
    /\ proc' = InitProc
    /\ fedN' = 0
    /\ fedD' = 0
    /\ last' = Op("proclost", TRUE)
    /\ UNCHANGED <<kind, test_phase, session_active, test_results, start_time_set, due,
                   shown, shown_done, nframes, rpc, inflight, ppc>>
    /\ UNCHANGED others

\* Time passes until the running phase has lasted its duration
TimePasses ==
    /\ session_active
    /\ ~due
    /\ ppc = "idle"
    /\ due' = TRUE
    /\ last' = Op("tick", TRUE)
    /\ UNCHANGED <<kind, test_phase, session_active, test_results, start_time_set,
                   shown, shown_done, hasProc, proc, nframes, fedN, fedD, rpc, inflight, ppc>>
    /\ UNCHANGED others

-----------------------------------------------------------------------------
(* The gaze assessment page *)

\* GazeAssessmentProcessor.recv: while task_active, the latest analysis data
\* point (when there is one) is appended to task_data
recv_task(p, has_data, pt, ph) ==
    IF p.test_active /\ has_data
    THEN [p EXCEPT !.gaze_data = Append(@, Sample("gaze", p, pt, ph))]
    ELSE p

\* the task controls are rendered only inside
\* "if current_task_index < len(selected_tasks)" and "if webrtc_ctx.video_processor"
ControlsRendered == test_phase < NumPhases(kind) /\ hasProc

\* task_completed = current_task_name in st.session_state.task_data
task_completed(res) == test_phase \in DOMAIN res

RerunGaze ==
    /\ kind = "gaze"
    /\ ControlsRendered
    /\ shown' = session_active
    /\ shown_done' = task_completed(test_results)
    /\ last' = Op("rerun", FALSE)
    /\ UNCHANGED <<kind, test_phase, session_active, test_results, start_time_set, due,
                   hasProc, proc, nframes, fedN, fedD, rpc, inflight, ppc>>
    /\ UNCHANGED others

\* "Start Task"
StartClickGaze ==
    /\ kind = "gaze"
    /\ ControlsRendered
    /\ ~shown
    /\ shown' = session_active
    /\ session_active' = TRUE
    /\ start_time_set' = TRUE
    /\ due' = FALSE
    /\ proc' = start_test(proc)
    /\ fedN' = 0
    /\ fedD' = 0
    /\ last' = Op("start", TRUE)
    /\ UNCHANGED <<kind, test_phase, test_results, shown_done, hasProc, nframes,
                   rpc, inflight, ppc>>
    /\ UNCHANGED others

\* "Stop Task"; the run goes on to render "Next Task"
StopClickGaze ==
    /\ kind = "gaze"
    /\ ControlsRendered
    /\ shown
    /\ shown' = session_active
    /\ IF session_active
       THEN /\ proc' = stop_test(proc)
            /\ test_results' = Store(test_results, test_phase, get_results(kind, proc'))
            /\ session_active' = FALSE
            /\ last' = Op("stop", TRUE)
       ELSE /\ last' = Op("stop", FALSE)
            /\ UNCHANGED <<proc, test_results, session_active>>
    /\ shown_done' = task_completed(test_results')
    /\ UNCHANGED <<kind, test_phase, start_time_set, due, hasProc, nframes,
                   fedN, fedD, rpc, inflight, ppc>>
    /\ UNCHANGED others

\* "Next Task"
NextClickGaze ==
    /\ kind = "gaze"
    /\ ControlsRendered
    /\ shown_done
    /\ shown' = session_active
    /\ shown_done' = task_completed(test_results)
    /\ test_phase' = test_phase + 1
    /\ last' = Op("next", TRUE)
    /\ UNCHANGED <<kind, session_active, test_results, start_time_set, due,
                   hasProc, proc, nframes, fedN, fedD, rpc, inflight, ppc>>
    /\ UNCHANGED others

\* "Restart Assessment" is rendered once all tasks are completed
CanRestart == kind = "gaze" /\ test_phase >= NumPhases(kind)

RestartClickGaze ==
    /\ CanRestart
    /\ test_phase' = 0
    /\ test_results' = NoResults
    /\ session_active' = FALSE
    /\ start_time_set' = FALSE
    /\ last' = Op("restart", TRUE)
    /\ UNCHANGED <<kind, due, shown, shown_done, hasProc, proc, nframes,
                   fedN, fedD, rpc, inflight, ppc>>
    /\ UNCHANGED others

FrameGaze ==
    /\ kind = "gaze"
    /\ hasProc
    /\ nframes < MaxFrames
    /\ \E has_data \in BOOLEAN, pt \in Points :
          proc' = recv_task(proc, has_data, pt, test_phase)
    /\ nframes' = nframes + 1
    /\ fedN' = IF proc.test_active THEN fedN + 1 ELSE fedN
    /\ last' = Op("frame", proc.test_active)
    /\ UNCHANGED <<kind, test_phase, session_active, test_results, start_time_set, due,
                   shown, shown_done, hasProc, fedD, rpc, inflight, ppc>>
    /\ UNCHANGED others

-----------------------------------------------------------------------------
(* The demo face test page *)

\* np.random.randint(180, 250) / np.random.randint(60, 120): the extreme draws
DemoFaceTimes == {180, 249}
DemoObjectTimes == {60, 119}

\* demo_simulator.stop_demo() returns {} (its gaze_history is never filled),
\* then the page fills in the drawn attention values
DemoResult(f, o) ==
    [empty |-> FALSE, points |-> 0, total |-> 0, detected |-> 0,
     c1 |-> f, c2 |-> o, attention |-> TRUE]

complete_demo_phase(f, o) ==
    /\ proc' = stop_test(proc)
    /\ test_results' = Store(test_results, test_phase, DemoResult(f, o))
    /\ session_active' = FALSE
    /\ test_phase' = test_phase + 1
    /\ start_time_set' = FALSE

\* "Auto-complete phase when time is up": tested by every run before the buttons
TimeIsUp == session_active /\ start_time_set /\ due

RerunDemo ==
    /\ kind = "demo"
    /\ IF TimeIsUp
       THEN /\ \E f \in DemoFaceTimes, o \in DemoObjectTimes : complete_demo_phase(f, o)
            /\ last' = Op("rerun", TRUE)
            /\ UNCHANGED shown
       ELSE /\ shown' = session_active
            /\ last' = Op("rerun", FALSE)
            /\ UNCHANGED <<proc, test_results, session_active, test_phase, start_time_set>>
    /\ UNCHANGED <<kind, due, shown_done, hasProc, nframes, fedN, fedD, rpc, inflight, ppc>>
    /\ UNCHANGED others

StartClickDemo ==
    /\ kind = "demo"
    /\ ~shown
    /\ ~TimeIsUp
    /\ shown' = session_active
    /\ IF test_phase < NumPhases(kind)
       THEN /\ session_active' = TRUE
            /\ start_time_set' = TRUE
            /\ due' = FALSE
            /\ proc' = start_test(proc)
            /\ last' = Op("start", TRUE)
       ELSE /\ last' = Op("start", FALSE)
            /\ UNCHANGED <<session_active, start_time_set, due, proc>>
    /\ UNCHANGED <<kind, test_phase, test_results, shown_done, hasProc, nframes,
                   fedN, fedD, rpc, inflight, ppc>>
    /\ UNCHANGED others

StopClickDemo ==
    /\ kind = "demo"
    /\ shown
    /\ ~TimeIsUp
    /\ shown' = session_active
    /\ IF session_active
       THEN /\ \E f \in DemoFaceTimes, o \in DemoObjectTimes : complete_demo_phase(f, o)
            /\ last' = Op("stop", TRUE)
       ELSE /\ last' = Op("stop", FALSE)
            /\ UNCHANGED <<proc, test_results, session_active, test_phase, start_time_set>>
    /\ UNCHANGED <<kind, due, shown_done, hasProc, nframes, fedN, fedD, rpc, inflight, ppc>>
    /\ UNCHANGED others

-----------------------------------------------------------------------------

Next ==
    \/ RerunCamera
    \/ StartClickCamera
    \/ StopClickCamera
    \/ Frame
    \/ ProcNew
    \/ ProcLost
    \/ TimePasses
    \/ RerunGaze
    \/ StartClickGaze
    \/ StopClickGaze
    \/ NextClickGaze
    \/ RestartClickGaze
    \/ FrameGaze
    \/ RerunDemo
    \/ StartClickDemo
    \/ StopClickDemo

Spec == Init /\ [][Next]_vars

-----------------------------------------------------------------------------
(* The capture thread and the page thread, statement by statement.          *)
(* recv runs in the capture thread while the Stop handler runs in the page  *)
(* thread; the processors of the social attention and visual pattern pages  *)
(* take no lock, so the statements of the two interleave.                   *)

RaceKinds == {"social", "pattern"}

InitRace == Init /\ kind \in RaceKinds

\* recv up to the region loops: the test of test_active and of the frame
\* counter, and the face mesh; a frame that is not processed is finished here
RecvBegin ==
    /\ kind \in RaceKinds
    /\ hasProc
    /\ rpc = "idle"
    /\ nframes < MaxFrames
    /\ \E face \in BOOLEAN, pt \in Points :
          /\ IF proc.test_active /\ proc.frame_count % SubSample(kind) = 0 /\ face
             THEN /\ rpc' = "count"
                  /\ inflight' = [NoSample EXCEPT !.pt = pt]
                  /\ UNCHANGED proc
             ELSE /\ proc' = recv(kind, proc, face, pt, test_phase)
                  /\ UNCHANGED <<rpc, inflight>>
          /\ fedD' = IF proc.test_active /\ face THEN fedD + 1 ELSE fedD
    /\ fedN' = IF proc.test_active THEN fedN + 1 ELSE fedN
    /\ nframes' = nframes + 1
    /\ last' = Op("frame", proc.test_active)
    /\ UNCHANGED <<kind, test_phase, session_active, test_results, start_time_set, due,
                   shown, shown_done, hasProc, ppc>>
    /\ UNCHANGED others

\* the two region loops: the counters are incremented
RecvCount ==
    /\ rpc = "count"
    /\ LET s == Sample(kind, proc, inflight.pt, test_phase) IN
          /\ inflight' = s
          /\ proc' = [proc EXCEPT !.c1 = IF s.hit1 THEN @ + 1 ELSE @,
                                  !.c2 = IF s.hit2 THEN @ + 1 ELSE @]
    /\ rpc' = "append"
    /\ last' = Op("count", TRUE)
    /\ UNCHANGED <<kind, test_phase, session_active, test_results, start_time_set, due,
                   shown, shown_done, hasProc, nframes, fedN, fedD, ppc>>
    /\ UNCHANGED others

\* self.gaze_data.append({...}) ... self.frame_count += 1
RecvAppend ==
    /\ rpc = "append"
    /\ proc' = [proc EXCEPT !.gaze_data = Append(@, inflight),
                            !.frame_count = @ + 1]
    /\ rpc' = "idle"
    /\ inflight' = NoSample
    /\ last' = Op("append", TRUE)
    /\ UNCHANGED <<kind, test_phase, session_active, test_results, start_time_set, due,
                   shown, shown_done, hasProc, nframes, fedN, fedD, ppc>>
    /\ UNCHANGED others

\* the Stop handler up to stop_test's "self.test_active = False"
StopBegin ==
    /\ kind \in RaceKinds
    /\ ppc = "idle"
    /\ shown
    /\ shown' = session_active
    /\ IF hasProc /\ session_active
       THEN /\ proc' = stop_test(DisplayStimulus(proc))
            /\ ppc' = "stopping"
            /\ UNCHANGED last
       ELSE /\ proc' = DisplayStimulus(proc)
            /\ last' = Op("stop", FALSE)
            /\ UNCHANGED ppc
    /\ UNCHANGED <<kind, test_phase, session_active, test_results, start_time_set, due,
                   shown_done, hasProc, nframes, fedN, fedD, rpc, inflight>>
    /\ UNCHANGED others

\* "return self.get_results()" and the rest of the Stop handler
StopFinish ==
    /\ ppc = "stopping"
    /\ test_results' = Store(test_results, test_phase, get_results(kind, proc))
    /\ session_active' = FALSE
    /\ test_phase' = test_phase + 1
    /\ ppc' = "idle"
    /\ last' = Op("stop", TRUE)
    /\ UNCHANGED <<kind, start_time_set, due, shown, shown_done, hasProc, proc,
                   nframes, fedN, fedD, rpc, inflight>>
    /\ UNCHANGED others

NextRace ==
    \/ RerunCamera
    \/ StartClickCamera
    \/ StopBegin
    \/ StopFinish
    \/ RecvBegin
    \/ RecvCount
    \/ RecvAppend
    \/ ProcNew

SpecRace == InitRace /\ [][NextRace]_vars

-----------------------------------------------------------------------------
(* Region classification of one gaze sample, for any configured regions     *)

\* largest number of rectangles in one region list
MaxRegions == 2

\* rectangles a page may configure; the first two and the last two overlap
Rects == { <<50, 100, 350, 400>>, <<300, 100, 600, 400>>,
           <<450, 100, 750, 400>>, <<0, 0, 800, 600>> }

RegionLists == UNION { [1..n -> Rects] : n \in 0..MaxRegions }

\* for region in regions: if region contains the point: counter += 1; break
RECURSIVE Increments(_, _)
Increments(regions, pt) ==
    IF regions = << >> THEN 0
    ELSE IF InRegion(Head(regions), pt) THEN 1
    ELSE Increments(Tail(regions), pt)

\* the two region loops of recv, one after the other: what is added to the
\* first counter (social / pattern / face) and to the second (non-social /
\* random / object)
classify(first_regions, second_regions, pt) ==
    [c1 |-> Increments(first_regions, pt), c2 |-> Increments(second_regions, pt)]

ClassifyCall ==
    /\ calc.fn = "none"
    /\ \E r1 \in RegionLists, r2 \in RegionLists, pt \in Points :
          calc' = [fn |-> "classify", first_regions |-> r1, second_regions |-> r2,
                   pt |-> pt, out |-> classify(r1, r2, pt)]
    /\ UNCHANGED <<kind, test_phase, session_active, test_results, start_time_set, due,
                   shown, shown_done, hasProc, proc, nframes, fedN, fedD, last,
                   rpc, inflight, ppc, analyzer>>

InitClassify == Init /\ kind = "social"

NextClassify == ClassifyCall

SpecClassify == InitClassify /\ [][NextClassify]_vars

-----------------------------------------------------------------------------
(* results_analysis.py: analysis of the stored face recognition results     *)

\* largest attention count of one stored phase result
MaxCount == 3

\* a number is kept as a fraction <<numerator, denominator>>, denominator > 0
Frac(n, d) == <<n, d>>
FracGE(q, n, d) == q[1] * d >= n * q[2]
FracLE(q, n, d) == q[1] * d <= n * q[2]
FracLT(q, n, d) == q[1] * d < n * q[2]
FracEQ(q, r) == q[1] * r[2] = r[1] * q[2]

Max(a, b) == IF a >= b THEN a ELSE b
Min(a, b) == IF a <= b THEN a ELSE b

\* results a face phase can have stored: {} or a result with its attention counts
FacePhaseResults ==
    {EmptyResult} \cup
    { [empty |-> FALSE, points |-> 1, total |-> 1, detected |-> 1,
       c1 |-> f, c2 |-> o, attention |-> TRUE] : f \in 0..MaxCount, o \in 0..MaxCount }

\* st.session_state.face_test_results: any set of stored phases
FaceResultSets == UNION { [keys -> FacePhaseResults] : keys \in SUBSET (0..2) }

\* for phase_key, results in face_results.items(): if results: total += results.get(..., 0)
RECURSIVE SumOver(_, _, _)
SumOver(res, keys, field) ==
    IF keys = {} THEN 0
    ELSE LET key == CHOOSE x \in keys : TRUE IN
         (IF res[key].empty THEN 0
          ELSE IF field = "face" THEN res[key].c1 ELSE res[key].c2)
         + SumOver(res, keys \ {key}, field)

\* face_risk_level with strict comparisons at the boundaries
face_risk_level_Strict(score) ==
    IF ~FracLE(score, 6, 10) THEN "low"
    ELSE IF ~FracLE(score, 4, 10) THEN "moderate"
    ELSE "high"

\* if score >= 0.6: low; elif score >= 0.4: moderate; else: high
face_risk_level(score) ==
    IF FracGE(score, 6, 10) THEN "low"
    ELSE IF FracGE(score, 4, 10) THEN "moderate"
    ELSE "high"

analyze_face_recognition_results(face_results) ==
    LET total_face_attention == SumOver(face_results, DOMAIN face_results, "face")
        total_object_attention == SumOver(face_results, DOMAIN face_results, "object")
        total_attention == total_face_attention + total_object_attention
        face_preference_score == Frac(total_face_attention, Max(total_attention, 1))
    IN [face_preference_score |-> face_preference_score,
        risk_level |-> face_risk_level(face_preference_score),
        total_attention_points |-> total_attention]

AnalyzeFaceCall ==
    /\ calc.fn = "none"
    /\ \E face_results \in FaceResultSets :
          calc' = [fn |-> "analyze_face", face_results |-> face_results,
                   out |-> analyze_face_recognition_results(face_results)]
    /\ UNCHANGED <<kind, test_phase, session_active, test_results, start_time_set, due,
                   shown, shown_done, hasProc, proc, nframes, fedN, fedD, last,
                   rpc, inflight, ppc, analyzer>>

InitFaceSummary == Init /\ kind = "face"

NextFaceSummary == AnalyzeFaceCall

SpecFaceSummary == InitFaceSummary /\ [][NextFaceSummary]_vars

-----------------------------------------------------------------------------
(* results_analysis.py: the comprehensive analysis over the four test types *)

TestTypes == {"face_recognition", "social_attention", "visual_pattern", "motion_tracking"}

\* face_test_results as the analysis may find it: {} or one stored phase
FaceInputs == {NoResults} \cup [{0} -> FacePhaseResults]

\* For the other three test types the stored results are represented by the
\* risk level their analyze_* function returns for them ("none": the results
\* dict is empty).  analyze_visual_pattern_results never returns "high".
SocialInputs == {"none", "low", "moderate", "high"}
PatternInputs == {"none", "low", "moderate"}
MotionInputs == {"none", "low", "moderate", "high"}

\* "if all_results[t]:" (a non-empty dict)
Truthy(all_results, t) ==
    IF t = "face_recognition" THEN DOMAIN all_results[t] # {}
    ELSE all_results[t] # "none"

\* analyze_*_results(all_results[t])['risk_level']
RiskLevelOf(all_results, t) ==
    IF t = "face_recognition"
    THEN analyze_face_recognition_results(all_results[t]).risk_level
    ELSE all_results[t]

\* risk_values = {'low': 0, 'moderate': 1, 'high': 2}; risk_values.get(risk, 0)
risk_values(risk) ==
    CASE risk = "low" -> 0
      [] risk = "moderate" -> 1
      [] risk = "high" -> 2
      [] OTHER -> 0

RECURSIVE SumRisk(_, _)
SumRisk(risk_indicators, keys) ==
    IF keys = {} THEN 0
    ELSE LET key == CHOOSE x \in keys : TRUE IN
         risk_values(risk_indicators[key]) + SumRisk(risk_indicators, keys \ {key})

\* calculate_overall_risk averaging over all four test types, a test type
\* without results counting as 0
calculate_overall_risk_DefaultsMissing(risk_indicators) ==
    IF DOMAIN risk_indicators = {} THEN "insufficient_data"
    ELSE LET avg_risk_score == Frac(SumRisk(risk_indicators, DOMAIN risk_indicators),
                                    Cardinality(TestTypes))
         IN IF FracLE(avg_risk_score, 5, 10) THEN "low"
            ELSE IF FracLE(avg_risk_score, 12, 10) THEN "moderate"
            ELSE "high"

calculate_overall_risk(risk_indicators) ==
    IF DOMAIN risk_indicators = {} THEN "insufficient_data"
    ELSE LET avg_risk_score == Frac(SumRisk(risk_indicators, DOMAIN risk_indicators),
                                    Cardinality(DOMAIN risk_indicators))
         IN IF FracLE(avg_risk_score, 5, 10) THEN "low"
            ELSE IF FracLE(avg_risk_score, 12, 10) THEN "moderate"
            ELSE "high"

\* total_tests counting every test type, with or without results
total_tests_All(all_results) == Cardinality(DOMAIN all_results)

\* total_tests = len([r for r in test_results.values() if r])
total_tests(all_results) ==
    Cardinality({t \in DOMAIN all_results : Truthy(all_results, t)})

\* min(total_tests * 0.25, 1.0)
confidence_level(n) == IF n * 25 <= 100 THEN Frac(n * 25, 100) ELSE Frac(1, 1)

generate_comprehensive_analysis(all_results) ==
    LET risk_indicators ==
            [t \in {x \in TestTypes : Truthy(all_results, x)} |-> RiskLevelOf(all_results, t)]
    IN [tests_completed |-> DOMAIN risk_indicators,
        risk_indicators |-> risk_indicators,
        overall_risk_level |-> calculate_overall_risk(risk_indicators),
        confidence_level |-> confidence_level(total_tests(all_results))]

AnalysisCall ==
    /\ calc.fn = "none"
    /\ \E f \in FaceInputs, s \in SocialInputs, p \in PatternInputs, m \in MotionInputs :
          LET results_in == [face_recognition |-> f, social_attention |-> s,
                                  visual_pattern |-> p, motion_tracking |-> m]
          IN calc' = [fn |-> "analysis", all_results |-> results_in,
                      out |-> generate_comprehensive_analysis(results_in)]
    /\ UNCHANGED <<kind, test_phase, session_active, test_results, start_time_set, due,
                   shown, shown_done, hasProc, proc, nframes, fedN, fedD, last,
                   rpc, inflight, ppc, analyzer>>

InitAnalysis == Init /\ kind = "face"

NextAnalysis == AnalysisCall

SpecAnalysis == InitAnalysis /\ [][NextAnalysis]_vars

-----------------------------------------------------------------------------
(* behavioral_model.py: ensemble prediction, and its display in results.py  *)

\* the three models of BehavioralModel, in the order of self.models
Classifiers == 1..3

\* positive-class probabilities a classifier may output, in tenths
ProbTenths == {0, 3, 5, 7, 8, 10}

\* how many classifiers predicted this label: list(predictions.values()).count
CountLabel(predictions, label) ==
    Cardinality({i \in Classifiers : predictions[i] = label})

\* ensemble_pred taking the largest label instead of the most frequent one
ensemble_pred_MaxLabel(predictions) ==
    IF \E i \in Classifiers : predictions[i] = 1 THEN 1 ELSE 0

\* max(set(predictions.values()), key=list(predictions.values()).count)
ensemble_pred(predictions) ==
    LET labels == {predictions[i] : i \in Classifiers} IN
    CHOOSE l \in labels :
        /\ \A m \in labels : CountLabel(predictions, l) >= CountLabel(predictions, m)
        /\ \A m \in labels : CountLabel(predictions, m) = CountLabel(predictions, l) => l <= m

\* np.mean([prob['asd_indicators'] for prob in probabilities.values()])
avg_prob_asd(probabilities) ==
    Frac(probabilities[1] + probabilities[2] + probabilities[3], 10 * 3)

\* BehavioralModel.predict, from the classifiers' outputs on
predict(predictions, probabilities) ==
    [prediction |-> ensemble_pred(predictions),
     probability_asd_indicators |-> avg_prob_asd(probabilities),
     probability_typical |-> Frac(30 - (probabilities[1] + probabilities[2] + probabilities[3]), 30)]

\* risk_level with the boundaries on the lower tier's side (<= instead of <)
risk_level_BoundaryBelow(risk_score) ==
    IF FracLE(risk_score, 3, 10) THEN "Low"
    ELSE IF FracLE(risk_score, 6, 10) THEN "Moderate"
    ELSE "Elevated"

\* show_summary_results: if risk_score < 0.3 ... elif risk_score < 0.6 ... else
risk_level(risk_score) ==
    IF FracLT(risk_score, 3, 10) THEN "Low"
    ELSE IF FracLT(risk_score, 6, 10) THEN "Moderate"
    ELSE "Elevated"

PredictCall ==
    /\ calc.fn = "none"
    /\ \E predictions \in [Classifiers -> {0, 1}], probabilities \in [Classifiers -> ProbTenths] :
          calc' = [fn |-> "predict", predictions |-> predictions,
                   probabilities |-> probabilities,
                   out |-> predict(predictions, probabilities)]
    /\ UNCHANGED <<kind, test_phase, session_active, test_results, start_time_set, due,
                   shown, shown_done, hasProc, proc, nframes, fedN, fedD, last,
                   rpc, inflight, ppc, analyzer>>

\* show_summary_results(questionnaire_data, gaze_data, ml_results)
ShowSummaryCall ==
    /\ calc.fn = "predict"
    /\ calc' = [fn |-> "summary", ml_results |-> calc.out,
                out |-> risk_level(calc.out.probability_asd_indicators)]
    /\ UNCHANGED <<kind, test_phase, session_active, test_results, start_time_set, due,
                   shown, shown_done, hasProc, proc, nframes, fedN, fedD, last,
                   rpc, inflight, ppc, analyzer>>

InitEnsemble == Init /\ kind = "face"

NextEnsemble ==
    \/ PredictCall
    \/ ShowSummaryCall

SpecEnsemble == InitEnsemble /\ [][NextEnsemble]_vars

-----------------------------------------------------------------------------
(* gaze_analyzer.py: GazeAnalyzer, calibration and gaze estimate            *)

\* largest number of point pairs passed to one calibrate call
MaxPairs == 4

Abs(n) == IF n < 0 THEN -n ELSE n

RECURSIVE GCD(_, _)
GCD(a, b) == IF b = 0 THEN a ELSE GCD(b, a % b)

\* a fraction in lowest terms with a positive denominator
Norm(q) ==
    LET g == GCD(Abs(q[1]), q[2]) IN
    IF q[1] = 0 THEN <<0, 1>> ELSE <<q[1] \div g, q[2] \div g>>

FracAdd(q, r) == Norm(<<q[1] * r[2] + r[1] * q[2], q[2] * r[2]>>)

\* calibration point pairs: a target shown on screen and the gaze measured for it
PairChoices ==
    { [actual |-> <<100, 100>>, measured |-> <<100, 100>>],
      [actual |-> <<320, 240>>, measured |-> <<310, 246>>],
      [actual |-> <<540, 100>>, measured |-> <<545, 100>>] }

CalibrationData == UNION { [1..n -> PairChoices] : n \in 0..MaxPairs }

\* sum of a[axis] - m[axis] over the pairs
RECURSIVE SumDiff(_, _)
SumDiff(data, axis) ==
    IF data = << >> THEN 0
    ELSE (Head(data).actual[axis] - Head(data).measured[axis]) + SumDiff(Tail(data), axis)

\* variant: the differences are taken the other way round (measured - actual)
avg_offset_Reversed(calibration_data, axis) ==
    Norm(<<0 - SumDiff(calibration_data, axis), Len(calibration_data)>>)

\* np.mean of the differences along one axis
avg_offset(calibration_data, axis) ==
    Norm(<<SumDiff(calibration_data, axis), Len(calibration_data)>>)

\* variant: three pairs are already enough
calibrate_ThreeSuffice(a, calibration_data) ==
    IF Len(calibration_data) >= 3
    THEN [a EXCEPT !.gaze_offset = << avg_offset(calibration_data, 1),
                                      avg_offset(calibration_data, 2) >>,
                   !.is_calibrated = TRUE]
    ELSE a

\* GazeAnalyzer.calibrate: the analyzer after the call
calibrate(a, calibration_data) ==
    IF Len(calibration_data) >= 4
    THEN [a EXCEPT !.gaze_offset = << avg_offset(calibration_data, 1),
                                      avg_offset(calibration_data, 2) >>,
                   !.is_calibrated = TRUE]
    ELSE a

\* ... and the value it returns
calibrate_returns(calibration_data) == Len(calibration_data) >= 4

\* GazeAnalyzer.reset_data
reset_data(a) ==
    [a EXCEPT !.gaze_history = << >>, !.eye_contact_history = << >>,
              !.is_calibrated = FALSE,
              !.gaze_offset = << <<0, 1>>, <<0, 1>> >>]

\* frame_shape[:2]
FrameHeight == 480
FrameWidth == 640

\* iris centre relative to eye centre (normalised landmark units, in hundredths)
GazeVectors == { <<0, 0>>, <<5, -3>>, <<-10, 8>> }

\* variant: the x offset is applied to both coordinates
calculate_gaze_direction_SameOffset(a, left_gaze_vector, right_gaze_vector) ==
    << FracAdd(Norm(<<(left_gaze_vector[1] + right_gaze_vector[1]) * FrameWidth, 2 * 100>>),
               a.gaze_offset[1]),
       FracAdd(Norm(<<(left_gaze_vector[2] + right_gaze_vector[2]) * FrameHeight, 2 * 100>>),
               a.gaze_offset[1]) >>

\* GazeAnalyzer._calculate_gaze_direction, from the two gaze vectors on:
\* the average vector scaled to the frame, plus the calibration offset
calculate_gaze_direction(a, left_gaze_vector, right_gaze_vector) ==
    << FracAdd(Norm(<<(left_gaze_vector[1] + right_gaze_vector[1]) * FrameWidth, 2 * 100>>),
               a.gaze_offset[1]),
       FracAdd(Norm(<<(left_gaze_vector[2] + right_gaze_vector[2]) * FrameHeight, 2 * 100>>),
               a.gaze_offset[2]) >>

CalibrateCall ==
    /\ \E calibration_data \in CalibrationData :
          /\ analyzer' = calibrate(analyzer, calibration_data)
          /\ calc' = [fn |-> "calibrate", calibration_data |-> calibration_data,
                      before |-> analyzer, out |-> calibrate_returns(calibration_data)]
    /\ UNCHANGED <<kind, test_phase, session_active, test_results, start_time_set, due,
                   shown, shown_done, hasProc, proc, nframes, fedN, fedD, last,
                   rpc, inflight, ppc>>

ResetDataCall ==
    /\ analyzer' = reset_data(analyzer)
    /\ calc' = [fn |-> "reset_data", before |-> analyzer]
    /\ UNCHANGED <<kind, test_phase, session_active, test_results, start_time_set, due,
                   shown, shown_done, hasProc, proc, nframes, fedN, fedD, last,
                   rpc, inflight, ppc>>

GazeDirectionCall ==
    /\ \E lv \in GazeVectors, rv \in GazeVectors :
          calc' = [fn |-> "gaze_direction", left_gaze_vector |-> lv, right_gaze_vector |-> rv,
                   before |-> analyzer,
                   out |-> calculate_gaze_direction(analyzer, lv, rv)]
    /\ UNCHANGED <<kind, test_phase, session_active, test_results, start_time_set, due,
                   shown, shown_done, hasProc, proc, nframes, fedN, fedD, last,
                   rpc, inflight, ppc, analyzer>>

InitCalibration == Init /\ kind = "gaze"

NextCalibration ==
    \/ CalibrateCall
    \/ ResetDataCall
    \/ GazeDirectionCall

SpecCalibration == InitCalibration /\ [][NextCalibration]_vars

-----------------------------------------------------------------------------
(* gaze_analyzer.py: GazeAnalyzer, frames and gaze history                   *)

\* largest number of samples fed into the gaze history
MaxSamples == 3

\* deque(maxlen=100)
HistoryMaxLen == 100

\* self.fixation_threshold, pixels
fixation_threshold == 50

\* one frame at ~30 FPS, milliseconds
FrameMs == 33

FracSub(q, r) == Norm(<<q[1] * r[2] - r[1] * q[2], q[2] * r[2]>>)

FracMul(q, r) == Norm(<<q[1] * r[1], q[2] * r[2]>>)

\* squared Euclidean distance of two points; the code takes math.sqrt of it
DistSq(p, q) ==
    FracAdd(FracMul(FracSub(p[1], q[1]), FracSub(p[1], q[1])),
            FracMul(FracSub(p[2], q[2]), FracSub(p[2], q[2])))

\* variant: a distance of exactly the threshold already counts as beyond
BeyondThreshold_AtOrAbove(p, q) ==
    DistSq(p, q)[1] >= fixation_threshold * fixation_threshold * DistSq(p, q)[2]

\* distance > self.fixation_threshold
BeyondThreshold(p, q) ==
    DistSq(p, q)[1] > fixation_threshold * fixation_threshold * DistSq(p, q)[2]

\* variant: a full deque keeps what it has and drops the new entry
DequeAppend_DropNewest(h, x) ==
    IF Len(h) >= HistoryMaxLen THEN h ELSE Append(h, x)

\* deque.append under maxlen: the oldest entry drops out of a full deque
DequeAppend(h, x) ==
    IF Len(h) >= HistoryMaxLen THEN Append(Tail(h), x) ELSE Append(h, x)

\* the loop of _calculate_fixation_duration from index i (1-based) down to the
\* oldest sample: 33 ms per earlier sample until one lies beyond the threshold
RECURSIVE FixationLoop(_, _, _)
FixationLoop(history, current_point, i) ==
    IF i = 0 THEN 0
    ELSE IF BeyondThreshold(current_point, history[i]) THEN 0
    ELSE FrameMs + FixationLoop(history, current_point, i - 1)

\* variant: the walk back starts at the current sample itself
calculate_fixation_duration_CountsCurrent(a) ==
    IF Len(a.gaze_history) < 1 THEN 0
    ELSE FixationLoop(a.gaze_history, a.gaze_history[Len(a.gaze_history)],
                      Len(a.gaze_history))

\* GazeAnalyzer._calculate_fixation_duration
calculate_fixation_duration(a) ==
    IF Len(a.gaze_history) < 2 THEN 0
    ELSE FixationLoop(a.gaze_history, a.gaze_history[Len(a.gaze_history)],
                      Len(a.gaze_history) - 1)

\* GazeAnalyzer._calculate_saccade_amplitude, squared: 0 below two samples,
\* else the squared distance of the last two samples
calculate_saccade_amplitude_sq(a) ==
    IF Len(a.gaze_history) < 2 THEN <<0, 1>>
    ELSE DistSq(a.gaze_history[Len(a.gaze_history)],
                a.gaze_history[Len(a.gaze_history) - 1])

\* squared distance of a gaze point from the frame centre, from which
\* _calculate_eye_contact_score derives the score
CenterDistSq(gaze_point) ==
    DistSq(gaze_point, << <<FrameWidth \div 2, 1>>, <<FrameHeight \div 2, 1>> >>)

\* variant: a frame without a face still appends its zero gaze point
process_frame_AppendsAlways(a, face_detected, left_gaze_vector, right_gaze_vector) ==
    LET gaze_point == IF face_detected
                      THEN calculate_gaze_direction(a, left_gaze_vector, right_gaze_vector)
                      ELSE << <<0, 1>>, <<0, 1>> >>
        a1 == [a EXCEPT !.gaze_history = DequeAppend(@, gaze_point)]
    IN [analyzer |-> [a1 EXCEPT !.eye_contact_history =
                                    DequeAppend(@, CenterDistSq(gaze_point))],
        gaze_data |-> [face_detected |-> face_detected,
                       gaze_x |-> gaze_point[1], gaze_y |-> gaze_point[2],
                       fixation_duration |-> calculate_fixation_duration(a1),
                       saccade_amplitude_sq |-> calculate_saccade_amplitude_sq(a1)]]

\* GazeAnalyzer.process_frame: the analyzer after the frame and the gaze_data
\* it returns (timestamp and the two scores left out of gaze_data)
process_frame(a, face_detected, left_gaze_vector, right_gaze_vector) ==
    IF face_detected
    THEN LET gaze_point == calculate_gaze_direction(a, left_gaze_vector, right_gaze_vector)
             a1 == [a EXCEPT !.gaze_history = DequeAppend(@, gaze_point)]
         IN [analyzer |-> [a1 EXCEPT !.eye_contact_history =
                                         DequeAppend(@, CenterDistSq(gaze_point))],
             gaze_data |-> [face_detected |-> TRUE,
                            gaze_x |-> gaze_point[1], gaze_y |-> gaze_point[2],
                            fixation_duration |-> calculate_fixation_duration(a1),
                            saccade_amplitude_sq |-> calculate_saccade_amplitude_sq(a1)]]
    ELSE [analyzer |-> a,
          gaze_data |-> [face_detected |-> FALSE,
                         gaze_x |-> <<0, 1>>, gaze_y |-> <<0, 1>>,
                         fixation_duration |-> 0,
                         saccade_amplitude_sq |-> <<0, 1>>]]

\* cleared: how many samples the reset right before this frame discarded
ProcessFrameCall ==
    /\ Len(analyzer.gaze_history) < MaxSamples
    /\ \E face_detected \in BOOLEAN, lv \in GazeVectors, rv \in GazeVectors :
          /\ (~face_detected) => (lv = <<0, 0>> /\ rv = <<0, 0>>)
          /\ analyzer' = process_frame(analyzer, face_detected, lv, rv).analyzer
          /\ calc' = [fn |-> "process_frame",
                      cleared |-> IF calc.fn = "reset_data"
                                  THEN Len(calc.before.gaze_history) ELSE 0,
                      out |-> process_frame(analyzer, face_detected, lv, rv).gaze_data]
    /\ UNCHANGED <<kind, test_phase, session_active, test_results, start_time_set, due,
                   shown, shown_done, hasProc, proc, nframes, fedN, fedD, last,
                   rpc, inflight, ppc>>

\* the two history metrics evaluated on the history as it stands
MetricsCall ==
    /\ calc' = [fn |-> "metrics",
                out |-> [fixation_duration |-> calculate_fixation_duration(analyzer),
                         saccade_amplitude_sq |-> calculate_saccade_amplitude_sq(analyzer)]]
    /\ UNCHANGED <<kind, test_phase, session_active, test_results, start_time_set, due,
                   shown, shown_done, hasProc, proc, nframes, fedN, fedD, last,
                   rpc, inflight, ppc, analyzer>>

InitHistory == Init /\ kind = "gaze"

NextHistory ==
    \/ ProcessFrameCall
    \/ MetricsCall
    \/ ResetDataCall

SpecHistory == InitHistory /\ [][NextHistory]_vars

-----------------------------------------------------------------------------
(* gaze_analyzer.py: the gaze history at its capacity                        *)

\* largest number of samples appended beyond the capacity
MaxOverflow == 3

\* the gaze point an uncalibrated analyzer computes from two equal gaze vectors
PointOf(v) == calculate_gaze_direction(InitAnalyzer, v, v)

\* n samples already taken, the gaze jumping between two distant points
Fill(n) == [i \in 1..n |-> IF i % 2 = 1 THEN PointOf(<<5, -3>>) ELSE PointOf(<<-10, 8>>)]

\* the analyzer after the n frames of Fill(n)
FilledAnalyzer(n) ==
    [InitAnalyzer EXCEPT !.gaze_history = Fill(n),
                         !.eye_contact_history = [i \in 1..n |-> CenterDistSq(Fill(n)[i])]]

\* appended: every gaze point appended so far, in arrival order
InitRing ==
    /\ InitSession
    /\ kind = "gaze"
    /\ \E n \in (HistoryMaxLen - 2)..HistoryMaxLen :
          /\ analyzer = FilledAnalyzer(n)
          /\ calc = [fn |-> "none", appended |-> Fill(n)]

RingFrameCall ==
    /\ Len(calc.appended) < HistoryMaxLen + MaxOverflow
    /\ \E face_detected \in BOOLEAN, lv \in GazeVectors, rv \in GazeVectors :
          /\ rv = lv
          /\ (~face_detected) => (lv = <<0, 0>>)
          /\ analyzer' = process_frame(analyzer, face_detected, lv, rv).analyzer
          /\ calc' = [fn |-> "process_frame",
                      appended |-> IF face_detected
                                   THEN Append(calc.appended,
                                               calculate_gaze_direction(analyzer, lv, rv))
                                   ELSE calc.appended,
                      out |-> process_frame(analyzer, face_detected, lv, rv).gaze_data]
    /\ UNCHANGED <<kind, test_phase, session_active, test_results, start_time_set, due,
                   shown, shown_done, hasProc, proc, nframes, fedN, fedD, last,
                   rpc, inflight, ppc>>

NextRing == RingFrameCall

SpecRing == InitRing /\ [][NextRing]_vars

-----------------------------------------------------------------------------
(* gaze_analyzer.py: the history metrics over given histories                *)

\* gaze points in pixels: (100,100) and (500,500) far apart, (130,140) exactly
\* 50 px from (100,100), and (100,100), (140,100), (180,100) in steps of 40 px
PixelPoints ==
    { << <<100, 1>>, <<100, 1>> >>, << <<500, 1>>, <<500, 1>> >>,
      << <<130, 1>>, <<140, 1>> >>, << <<140, 1>>, <<100, 1>> >>,
      << <<180, 1>>, <<100, 1>> >> }

Histories == UNION { [1..n -> PixelPoints] : n \in 0..MaxSamples }

\* the analyzer after one detected frame per point of h
AnalyzerWith(h) ==
    [InitAnalyzer EXCEPT !.gaze_history = h,
                         !.eye_contact_history = [i \in 1..Len(h) |-> CenterDistSq(h[i])]]

InitFixation ==
    /\ InitSession
    /\ kind = "gaze"
    /\ calc = NoCall
    /\ \E h \in Histories : analyzer = AnalyzerWith(h)

NextFixation == MetricsCall

SpecFixation == InitFixation /\ [][NextFixation]_vars

-----------------------------------------------------------------------------
(* gaze_analyzer.py: frames fed to a fresh and to a calibrated analyzer      *)

\* the analyzer calibrated once, right after construction, with four pairs
CalibratedOnce ==
    calibrate(InitAnalyzer,
              << [actual |-> <<320, 240>>, measured |-> <<310, 246>>],
                 [actual |-> <<320, 240>>, measured |-> <<310, 246>>],
                 [actual |-> <<540, 100>>, measured |-> <<545, 100>>],
                 [actual |-> <<100, 100>>, measured |-> <<100, 100>>] >>)

InitFrames ==
    /\ InitSession
    /\ kind = "gaze"
    /\ calc = NoCall
    /\ analyzer \in {InitAnalyzer, CalibratedOnce}

NextFrames ==
    \/ ProcessFrameCall
    \/ MetricsCall

SpecFrames == InitFrames /\ [][NextFrames]_vars

-----------------------------------------------------------------------------
(* results_analysis.py: analysis of the stored motion tracking results      *)

\* largest number of stored motion phases handed to the analysis
MaxMotionPhases == 2

\* tracking_accuracy and smooth_pursuit_quality of a stored phase, in tenths
AccuracyTenths == {2, 5, 7, 9}
PursuitTenths == {1, 3, 5, 8}

\* results a motion phase can have stored: {} or a result with its two scores
MotionPhaseResults ==
    {EmptyResult} \cup
    { [empty |-> FALSE, tracking_accuracy |-> a, smooth_pursuit_quality |-> q] :
          a \in AccuracyTenths, q \in PursuitTenths }

\* st.session_state.motion_test_results: any set of stored phases
MotionResultSets ==
    UNION { [keys -> MotionPhaseResults] : keys \in SUBSET (0..(MaxMotionPhases - 1)) }

\* the list built by "for test_key, results in motion_results.items(): if results:
\* ....append(results.get(field, 0))", as its sum (in tenths) and its length
RECURSIVE Collected(_, _, _)
Collected(res, keys, field) ==
    IF keys = {} THEN [sum |-> 0, len |-> 0]
    ELSE LET key == CHOOSE x \in keys : TRUE
             rest == Collected(res, keys \ {key}, field)
         IN IF res[key].empty THEN rest
            ELSE [sum |-> rest.sum + (IF field = "tracking_accuracy"
                                      THEN res[key].tracking_accuracy
                                      ELSE res[key].smooth_pursuit_quality),
                  len |-> rest.len + 1]

\* np.mean(xs) if xs else 0
MeanOrZero(c) == IF c.len = 0 THEN Frac(0, 1) ELSE Frac(c.sum, 10 * c.len)

\* variant: the moderate tier needs both scores
motion_risk_level_BothForModerate(a, q) ==
    IF FracGE(a, 7, 10) /\ FracGE(q, 5, 10) THEN "low"
    ELSE IF FracGE(a, 5, 10) /\ FracGE(q, 3, 10) THEN "moderate"
    ELSE "high"

\* if a >= 0.7 and q >= 0.5: low; elif a >= 0.5 or q >= 0.3: moderate; else: high
motion_risk_level(a, q) ==
    IF FracGE(a, 7, 10) /\ FracGE(q, 5, 10) THEN "low"
    ELSE IF FracGE(a, 5, 10) \/ FracGE(q, 3, 10) THEN "moderate"
    ELSE "high"

analyze_motion_tracking_results(motion_results) ==
    LET avg_tracking_accuracy ==
            MeanOrZero(Collected(motion_results, DOMAIN motion_results, "tracking_accuracy"))
        avg_pursuit_quality ==
            MeanOrZero(Collected(motion_results, DOMAIN motion_results,
                                 "smooth_pursuit_quality"))
    IN [tracking_score |-> avg_tracking_accuracy,
        risk_level |-> motion_risk_level(avg_tracking_accuracy, avg_pursuit_quality)]

AnalyzeMotionCall ==
    /\ calc.fn = "none"
    /\ \E motion_results \in MotionResultSets :
          calc' = [fn |-> "analyze_motion", motion_results |-> motion_results,
                   out |-> analyze_motion_tracking_results(motion_results)]
    /\ UNCHANGED <<kind, test_phase, session_active, test_results, start_time_set, due,
                   shown, shown_done, hasProc, proc, nframes, fedN, fedD, last,
                   rpc, inflight, ppc, analyzer>>

InitMotionSummary == Init /\ kind = "motion"

NextMotionSummary == AnalyzeMotionCall

SpecMotionSummary == InitMotionSummary /\ [][NextMotionSummary]_vars

-----------------------------------------------------------------------------
(* motion_tracking_test.py: the samples of one motion phase                  *)

\* largest number of samples taken in the phase
MaxMotionSamples == 8

\* gaze points of the motion frames
MotionPoints == { <<100, 200>>, <<500, 350>> }

\* MotionTrackingProcessor.start_test
MotionStart ==
    /\ ~proc.test_active
    /\ proc' = start_test(proc)
    /\ UNCHANGED <<kind, test_phase, session_active, test_results, start_time_set, due,
                   shown, shown_done, hasProc, nframes, fedN, fedD, last,
                   rpc, inflight, ppc>>
    /\ UNCHANGED others

\* MotionTrackingProcessor.recv for one frame
MotionFrame ==
    /\ proc.test_active
    /\ Len(proc.gaze_data) < MaxMotionSamples
    /\ proc.frame_count < 2 * MaxMotionSamples
    /\ \E face \in BOOLEAN, pt \in MotionPoints :
          proc' = recv("motion", proc, face, pt, 0)
    /\ UNCHANGED <<kind, test_phase, session_active, test_results, start_time_set, due,
                   shown, shown_done, hasProc, nframes, fedN, fedD, last,
                   rpc, inflight, ppc>>
    /\ UNCHANGED others

InitPursuit == Init /\ kind = "motion"

NextPursuit ==
    \/ MotionStart
    \/ MotionFrame

SpecPursuit == InitPursuit /\ [][NextPursuit]_vars

-----------------------------------------------------------------------------
(* data_processor.py: questionnaire domain scores                            *)

\* largest number of answered questions in one questionnaire
MaxAnswered == 3

\* self.questionnaire_weights, in tenths
questionnaire_weights ==
    [enjoys_being_swung |-> 8, interest_in_other_children |-> 10, enjoys_climbing |-> 6,
     enjoys_peek_a_boo |-> 9, pretend_play |-> 10, uses_index_finger |-> 8,
     brings_objects_to_show |-> 10, eye_contact |-> 10, unusual_finger_movements |-> 9,
     tries_to_attract_attention |-> 9,
     notices_small_sounds |-> 7, concentrates_on_whole_picture |-> 6,
     easy_to_do_several_things |-> 7, enjoys_social_chit_chat |-> 9,
     finds_easy_to_read_between_lines |-> 8, knows_how_to_tell_stories |-> 7,
     drawn_to_people |-> 9, enjoys_social_activities |-> 9,
     finds_easy_to_work_out_intentions |-> 8, good_at_social_chit_chat |-> 9]

Questions == DOMAIN questionnaire_weights

\* domains = {...} of _calculate_domain_scores
domains ==
    [social_communication |->
         {"interest_in_other_children", "enjoys_peek_a_boo", "brings_objects_to_show",
          "eye_contact", "tries_to_attract_attention", "enjoys_social_chit_chat",
          "drawn_to_people", "enjoys_social_activities"},
     repetitive_behaviors |->
         {"unusual_finger_movements", "notices_small_sounds", "concentrates_on_whole_picture"},
     social_cognition |->
         {"pretend_play", "finds_easy_to_read_between_lines", "knows_how_to_tell_stories",
          "finds_easy_to_work_out_intentions", "good_at_social_chit_chat"},
     adaptive_functioning |->
         {"enjoys_being_swung", "enjoys_climbing", "uses_index_finger",
          "easy_to_do_several_things"}]

\* responses of one item
Responses == {0, 1}

\* the subsets of S with at most k elements
RECURSIVE UpTo(_, _)
UpTo(S, k) ==
    IF k = 0 \/ S = {} THEN {{}}
    ELSE LET x == CHOOSE y \in S : TRUE IN
         UpTo(S \ {x}, k) \cup { T \cup {x} : T \in UpTo(S \ {x}, k - 1) }

\* raw_answers: the answered questions and their responses
AnswerSets == UNION { [S -> Responses] : S \in UpTo(Questions, MaxAnswered) }

RECURSIVE SumAnswers(_, _)
SumAnswers(answers, qs) ==
    IF qs = {} THEN 0
    ELSE LET q == CHOOSE x \in qs : TRUE IN answers[q] + SumAnswers(answers, qs \ {q})

\* one pass of "for domain, questions in domains.items()"
domain_score(answers, questions) ==
    LET answered == questions \cap DOMAIN answers
        domain_count == Cardinality(answered)
    IN IF domain_count > 0 THEN Norm(<<SumAnswers(answers, answered), domain_count>>)
       ELSE <<0, 1>>

\* DataProcessor._calculate_domain_scores
calculate_domain_scores(answers) ==
    [d \in DOMAIN domains |-> domain_score(answers, domains[d])]

DomainScoresCall ==
    /\ calc.fn = "none"
    /\ \E answers \in AnswerSets :
          calc' = [fn |-> "domain_scores", answers |-> answers,
                   out |-> calculate_domain_scores(answers)]
    /\ UNCHANGED <<kind, test_phase, session_active, test_results, start_time_set, due,
                   shown, shown_done, hasProc, proc, nframes, fedN, fedD, last,
                   rpc, inflight, ppc, analyzer>>

InitQuestionnaire == Init /\ kind = "gaze"

NextQuestionnaire == DomainScoresCall

SpecQuestionnaire == InitQuestionnaire /\ [][NextQuestionnaire]_vars

-----------------------------------------------------------------------------
(* data_processor.py: the rule-based risk assessment                        *)

\* the three inputs: None/empty (present = FALSE) or a dict with its scores;
\* domain and gaze scores in tenths, the model's probability in hundredths
QuestionnaireInputs ==
    { [present |-> FALSE] } \cup
    { [present |-> TRUE, social_communication_score |-> s, repetitive_behaviors_score |-> r] :
          s \in {2, 3, 5}, r \in {5, 7, 8} }

GazeInputs ==
    { [present |-> FALSE] } \cup
    { [present |-> TRUE, avg_eye_contact_score |-> e, avg_social_attention_score |-> a] :
          e \in {2, 3}, a \in {3, 4} }

PredictionInputs ==
    { [present |-> FALSE] } \cup
    { [present |-> TRUE, probability_asd_indicators |-> p] : p \in {50, 51, 100} }

\* the risk factors that fire
risk_factors(questionnaire_data, gaze_data, prediction_results) ==
    (IF questionnaire_data.present /\ questionnaire_data.social_communication_score < 3
     THEN {"Low social communication scores"} ELSE {})
    \cup (IF questionnaire_data.present /\ questionnaire_data.repetitive_behaviors_score > 7
          THEN {"Elevated repetitive behavior indicators"} ELSE {})
    \cup (IF gaze_data.present /\ gaze_data.avg_eye_contact_score < 3
          THEN {"Reduced eye contact patterns"} ELSE {})
    \cup (IF gaze_data.present /\ gaze_data.avg_social_attention_score < 4
          THEN {"Atypical social attention patterns"} ELSE {})
    \cup (IF prediction_results.present /\ prediction_results.probability_asd_indicators > 50
          THEN {"Machine learning model indicates elevated risk"} ELSE {})

\* risk_score before the final min, in thousandths: 0.3, 0.2, 0.2, 0.2 and
\* ml_risk * 0.3 for the factors that fire
raw_risk_score(questionnaire_data, gaze_data, prediction_results) ==
    LET fired == risk_factors(questionnaire_data, gaze_data, prediction_results) IN
    (IF "Low social communication scores" \in fired THEN 300 ELSE 0)
    + (IF "Elevated repetitive behavior indicators" \in fired THEN 200 ELSE 0)
    + (IF "Reduced eye contact patterns" \in fired THEN 200 ELSE 0)
    + (IF "Atypical social attention patterns" \in fired THEN 200 ELSE 0)
    + (IF "Machine learning model indicates elevated risk" \in fired
       THEN prediction_results.probability_asd_indicators * 3 ELSE 0)

\* variant: the thresholds are inclusive
assessment_risk_level_AtOrAbove(score) ==
    IF score >= 600 THEN "Elevated"
    ELSE IF score >= 300 THEN "Moderate"
    ELSE "Low"

\* risk_level = "Low"; if risk_score > 0.3: "Moderate"; if risk_score > 0.6: "Elevated"
assessment_risk_level(score) ==
    IF score > 600 THEN "Elevated"
    ELSE IF score > 300 THEN "Moderate"
    ELSE "Low"

\* DataProcessor._calculate_risk_assessment
calculate_risk_assessment(questionnaire_data, gaze_data, prediction_results) ==
    LET score == raw_risk_score(questionnaire_data, gaze_data, prediction_results) IN
    [risk_score |-> Min(score, 1000),
     risk_level |-> assessment_risk_level(score),
     risk_factors |-> risk_factors(questionnaire_data, gaze_data, prediction_results)]

RiskAssessmentCall ==
    /\ calc.fn = "none"
    /\ \E q \in QuestionnaireInputs, g \in GazeInputs, p \in PredictionInputs :
          calc' = [fn |-> "risk_assessment", questionnaire_data |-> q, gaze_data |-> g,
                   prediction_results |-> p,
                   out |-> calculate_risk_assessment(q, g, p)]
    /\ UNCHANGED <<kind, test_phase, session_active, test_results, start_time_set, due,
                   shown, shown_done, hasProc, proc, nframes, fedN, fedD, last,
                   rpc, inflight, ppc, analyzer>>

InitRiskAssessment == Init /\ kind = "gaze"

NextRiskAssessment == RiskAssessmentCall

SpecRiskAssessment == InitRiskAssessment /\ [][NextRiskAssessment]_vars

-----------------------------------------------------------------------------
(* Claims *)

C2_StopWhileIdle ==
    [][(last'.op = "stop" /\ ~session_active) =>
          /\ UNCHANGED <<test_phase, test_results, session_active>>
          /\ proc'.gaze_data = proc.gaze_data
          /\ proc'.c1 = proc.c1 /\ proc'.c2 = proc.c2
          /\ proc'.frame_count = proc.frame_count
          /\ last'.msg = "InvalidTransition"]_vars

\* C2, the state part alone: the Stop handlers skip their guarded block, so
\* cursor, stored results and accumulator are left as they were
C2_StopWhileIdleLeavesState ==
    [][(last'.op = "stop" /\ ~session_active) =>
          /\ UNCHANGED <<test_phase, test_results, session_active>>
          /\ proc'.gaze_data = proc.gaze_data
          /\ proc'.c1 = proc.c1 /\ proc'.c2 = proc.c2
          /\ proc'.frame_count = proc.frame_count]_vars

\* C2 case: a second Stop click was delivered after a phase with samples had
\* been stopped and stored
C2_Case ==
    /\ last.op = "stop" /\ ~last.pre
    /\ test_phase >= 1
    /\ proc.gaze_data # << >>

\* C3: a Start delivered while a phase is already ACTIVE is a no-op: the
\* samples and counters accumulated since the first start are preserved, the
\* frame counter is not reset, and cursor and state are unchanged.
C3_StartWhileActive ==
    [][(last'.op = "start" /\ session_active /\ proc.test_active) =>
          /\ UNCHANGED <<test_phase, session_active>>
          /\ proc'.gaze_data = proc.gaze_data
          /\ proc'.c1 = proc.c1 /\ proc'.c2 = proc.c2
          /\ proc'.frame_count = proc.frame_count
          /\ proc'.total_frames = proc.total_frames
          /\ proc'.face_detected_frames = proc.face_detected_frames]_vars

\* no result is stored or replaced by the step (results may only be cleared)
NothingStored ==
    /\ DOMAIN test_results' \subseteq DOMAIN test_results
    /\ \A key \in DOMAIN test_results' : test_results'[key] = test_results[key]

C5_AutoStopOnTick ==
    [][(last'.op = "rerun" /\ session_active /\ due) =>
          /\ ~session_active'
          /\ test_phase' = test_phase + 1
          /\ test_phase \in DOMAIN test_results']_vars

\* C6: a reset of the session is available in every session state (IDLE,
\* ACTIVE, DONE) and, whatever the state it is called in, leaves no stored
\* results, cursor 0 and state IDLE with no phase collecting samples.
C6_ResetAnywhere ==
    /\ []CanRestart
    /\ [][last'.op = "restart" =>
             /\ test_results' = NoResults
             /\ test_phase' = 0
             /\ ~session_active'
             /\ ~proc'.test_active]_vars

\* C6, the postcondition alone, for the one reset that exists ("Restart
\* Assessment" of the gaze page, offered once all tasks are completed)
C6_RestartStopsCollecting ==
    [][last'.op = "restart" =>
             /\ test_results' = NoResults
             /\ test_phase' = 0
             /\ ~session_active'
             /\ ~proc'.test_active]_vars

\* every region counter of a stored result is at most the number of gaze
\* samples counted in that same result
ConsistentResults ==
    \A key \in DOMAIN test_results :
        /\ test_results[key].c1 <= test_results[key].points
        /\ test_results[key].c2 <= test_results[key].points

\* C7: with frames delivered by the capture thread concurrently with the page
\* thread's start/stop, every stored result is a consistent snapshot (each
\* region counter <= the gaze samples counted in the same result), and no
\* sample or counter increment is applied to the accumulator once the phase
\* has been stopped, i.e. during or after the computation of its result.
C7_ConsistentSnapshot ==
    /\ []ConsistentResults
    /\ [][~(last'.op \in {"count", "append"} /\ ~proc.test_active)]_vars

\* C8: the start of a phase installs the region configuration of the current
\* phase before any frame of that phase is ingested: every gaze sample
\* counted in phase k's region counters was classified against phase k's own
\* regions, never against those left from phase k-1 or an empty configuration.
C8_RegionsOfCurrentPhase ==
    (kind \in {"social", "pattern"} /\ proc.test_active) =>
        \A i \in DOMAIN proc.gaze_data :
            (proc.gaze_data[i].hit1 \/ proc.gaze_data[i].hit2) =>
                proc.gaze_data[i].cfg = proc.gaze_data[i].ph + 1

C10_DetectionRate ==
    (kind = "face" /\ last.op = "stop" /\ last.acted
        /\ ~test_results[test_phase - 1].empty) =>
        /\ test_results[test_phase - 1].total >= 1
        /\ test_results[test_phase - 1].detected * fedN = fedD * test_results[test_phase - 1].total

\* index of the first rectangle of the list that contains the point (0: none)
RECURSIVE FirstMatch(_, _, _)
FirstMatch(regions, pt, i) ==
    IF i > Len(regions) THEN 0
    ELSE IF InRegion(regions[i], pt) THEN i
    ELSE FirstMatch(regions, pt, i + 1)

C11_FirstMatchWithinGroup ==
    calc.fn = "classify" =>
        /\ calc.out.c1 = (IF FirstMatch(calc.first_regions, calc.pt, 1) > 0 THEN 1 ELSE 0)
        /\ calc.out.c2 = (IF FirstMatch(calc.second_regions, calc.pt, 1) > 0 THEN 1 ELSE 0)

\* face (what = 1) or object (what = 2) attention counts of the non-empty
\* stored results, summed phase by phase
AttentionOf(res, key, what) ==
    IF key \in DOMAIN res /\ ~res[key].empty
    THEN (IF what = 1 THEN res[key].c1 ELSE res[key].c2)
    ELSE 0
TotalAttention(res, what) ==
    AttentionOf(res, 0, what) + AttentionOf(res, 1, what) + AttentionOf(res, 2, what)

\* C12: the face recognition summary has preference_ratio = F / max(F + O, 1)
\* with F and O the face and object attention counts summed over the
\* non-empty phase results, and the tier is low for ratio >= 0.6, moderate for
\* 0.4 <= ratio < 0.6 and high for ratio < 0.4.
C12_FacePreferenceTier ==
    calc.fn = "analyze_face" =>
        LET F == TotalAttention(calc.face_results, 1)
            O == TotalAttention(calc.face_results, 2)
            D == IF F + O >= 1 THEN F + O ELSE 1
        IN /\ calc.out.face_preference_score[1] * D = F * calc.out.face_preference_score[2]
           /\ (calc.out.risk_level = "low") = (5 * F >= 3 * D)
           /\ (calc.out.risk_level = "moderate") = (5 * F >= 2 * D /\ 5 * F < 3 * D)
           /\ (calc.out.risk_level = "high") = (5 * F < 2 * D)

\* C12 witness: the ratio is exactly 0.6 (F = 3, O = 2, one phase stored
\* empty) and the tier is low
C12_Witness ==
    /\ calc.fn = "analyze_face"
    /\ \E key \in DOMAIN calc.face_results : calc.face_results[key].empty
    /\ TotalAttention(calc.face_results, 1) = 3
    /\ TotalAttention(calc.face_results, 2) = 2
    /\ calc.out.risk_level = "low"

\* the test types that have results, and the tier each of them was given
Completed(r) == {t \in TestTypes : Truthy(r, t)}
TierValue(r, t) ==
    LET tier == RiskLevelOf(r, t) IN
    IF tier = "high" THEN 2 ELSE IF tier = "moderate" THEN 1 ELSE 0
TierSum(r) ==
    (IF Truthy(r, "face_recognition") THEN TierValue(r, "face_recognition") ELSE 0)
    + (IF Truthy(r, "social_attention") THEN TierValue(r, "social_attention") ELSE 0)
    + (IF Truthy(r, "visual_pattern") THEN TierValue(r, "visual_pattern") ELSE 0)
    + (IF Truthy(r, "motion_tracking") THEN TierValue(r, "motion_tracking") ELSE 0)

\* C13: the overall risk maps each completed test type's tier to low = 0,
\* moderate = 1, high = 2, averages over the completed test types only, and
\* thresholds the average: <= 0.5 low, <= 1.2 moderate, otherwise high.
C13_OverallRisk ==
    (calc.fn = "analysis" /\ Completed(calc.all_results) # {}) =>
        LET n == Cardinality(Completed(calc.all_results))
            sum == TierSum(calc.all_results)
        IN /\ DOMAIN calc.out.risk_indicators = Completed(calc.all_results)
           /\ (calc.out.overall_risk_level = "low") = (2 * sum <= n)
           /\ (calc.out.overall_risk_level = "moderate") = (2 * sum > n /\ 5 * sum <= 6 * n)
           /\ (calc.out.overall_risk_level = "high") = (5 * sum > 6 * n)

\* C13 witness: two completed test types, one low and one high (average 1.0),
\* overall tier moderate
C13_Witness ==
    /\ calc.fn = "analysis"
    /\ Completed(calc.all_results) = {"social_attention", "motion_tracking"}
    /\ calc.all_results.social_attention = "low"
    /\ calc.all_results.motion_tracking = "high"
    /\ calc.out.overall_risk_level = "moderate"

\* C14: the confidence of the overall assessment is min(0.25 * C, 1.0) with C
\* the number of completed test types, and C is exactly the number of test
\* types that contributed a tier to the overall risk.
C14_Confidence ==
    calc.fn = "analysis" =>
        LET C == Cardinality(DOMAIN calc.out.risk_indicators) IN
           /\ C = Cardinality(Completed(calc.all_results))
           /\ 4 * calc.out.confidence_level[1]
                  = (IF C <= 4 THEN C ELSE 4) * calc.out.confidence_level[2]

\* C14 witness: two test types completed, confidence 0.5
C14_Witness ==
    /\ calc.fn = "analysis"
    /\ Cardinality(DOMAIN calc.out.risk_indicators) = 2
    /\ Truthy(calc.all_results, "face_recognition")
    /\ calc.out.confidence_level[1] * 2 = calc.out.confidence_level[2]

\* C15: the final label of the ensemble is the label held by at least two of
\* the three classifiers, and the final probability is the unweighted mean of
\* the three positive-class probabilities.
C15_MajorityAndMean ==
    calc.fn = "predict" =>
        LET ones == Cardinality({i \in Classifiers : calc.predictions[i] = 1}) IN
           /\ (calc.out.prediction = 1) = (ones >= 2)
           /\ (calc.out.prediction = 0) = (ones <= 1)
           /\ 30 * calc.out.probability_asd_indicators[1]
                  = (calc.probabilities[1] + calc.probabilities[2] + calc.probabilities[3])
                    * calc.out.probability_asd_indicators[2]

\* C15 witness: labels [1,1,0] with probabilities [0.8,0.7,0.3] give label 1
\* and probability 0.6
C15_Witness ==
    /\ calc.fn = "predict"
    /\ calc.predictions = [i \in Classifiers |-> IF i <= 2 THEN 1 ELSE 0]
    /\ calc.probabilities = [i \in Classifiers |-> IF i = 1 THEN 8 ELSE IF i = 2 THEN 7 ELSE 3]
    /\ calc.out.prediction = 1
    /\ calc.out.probability_asd_indicators[1] * 10 = 6 * calc.out.probability_asd_indicators[2]

\* C16: the fused probability p falls in exactly one tier: p < 0.3 low,
\* 0.3 <= p < 0.6 moderate, p >= 0.6 elevated.
C16_ProbabilityBuckets ==
    calc.fn = "summary" =>
        LET p == calc.ml_results.probability_asd_indicators IN
           /\ calc.out \in {"Low", "Moderate", "Elevated"}
           /\ (calc.out = "Low") = (10 * p[1] < 3 * p[2])
           /\ (calc.out = "Moderate") = (10 * p[1] >= 3 * p[2] /\ 10 * p[1] < 6 * p[2])
           /\ (calc.out = "Elevated") = (10 * p[1] >= 6 * p[2])

\* C16 witness: a fused probability of exactly 0.6 is displayed as elevated
C16_Witness ==
    /\ calc.fn = "summary"
    /\ 10 * calc.ml_results.probability_asd_indicators[1]
           = 6 * calc.ml_results.probability_asd_indicators[2]
    /\ calc.out = "Elevated"

ZeroOffset == << <<0, 1>>, <<0, 1>> >>

\* C17: a calibrate call with fewer than four point pairs returns False and
\* leaves the offset and the calibrated flag as they were before the call.
C17_TooFewPairs ==
    (calc.fn = "calibrate" /\ Len(calc.calibration_data) < 4)
        => /\ calc.out = FALSE
           /\ analyzer.gaze_offset = calc.before.gaze_offset
           /\ analyzer.is_calibrated = calc.before.is_calibrated

\* three pairs handed to an analyzer that already carries a calibration
C17_Witness ==
    /\ calc.fn = "calibrate"
    /\ Len(calc.calibration_data) = 3
    /\ calc.before.is_calibrated
    /\ calc.before.gaze_offset # ZeroOffset
    /\ \E i \in 1..3 : calc.calibration_data[i].actual # calc.calibration_data[i].measured

RECURSIVE SumActual(_, _)
SumActual(data, axis) ==
    IF data = << >> THEN 0 ELSE Head(data).actual[axis] + SumActual(Tail(data), axis)

RECURSIVE SumMeasured(_, _)
SumMeasured(data, axis) ==
    IF data = << >> THEN 0 ELSE Head(data).measured[axis] + SumMeasured(Tail(data), axis)

\* C18: a calibrate call with n >= 4 point pairs succeeds and sets the offset to
\* the per-axis mean of actual - measured, whatever the offset was before; when
\* every pair has actual = measured the offset is (0, 0).
C18_MeanOffset ==
    (calc.fn = "calibrate" /\ Len(calc.calibration_data) >= 4)
        => LET data == calc.calibration_data
               n == Len(data)
           IN /\ calc.out = TRUE
              /\ analyzer.is_calibrated
              /\ \A axis \in 1..2 :
                    analyzer.gaze_offset[axis][1] * n =
                        (SumActual(data, axis) - SumMeasured(data, axis))
                            * analyzer.gaze_offset[axis][2]
              /\ (\A i \in 1..n : data[i].actual = data[i].measured)
                    => analyzer.gaze_offset = ZeroOffset

\* a second calibration replaces a different, non-zero earlier offset
C18_Witness ==
    /\ calc.fn = "calibrate"
    /\ Len(calc.calibration_data) >= 4
    /\ calc.before.gaze_offset # ZeroOffset
    /\ analyzer.gaze_offset # ZeroOffset
    /\ analyzer.gaze_offset # calc.before.gaze_offset
    /\ analyzer.gaze_offset[1][2] # 1

\* C19: the gaze estimate is additive in the calibration offset: the estimate
\* made with offset (a, b) is the estimate the same landmarks give with offset
\* (0, 0), plus (a, b).
C19_AdditiveOffset ==
    calc.fn = "gaze_direction"
        => LET uncalibrated == calculate_gaze_direction(
                                   [calc.before EXCEPT !.gaze_offset = ZeroOffset],
                                   calc.left_gaze_vector, calc.right_gaze_vector)
           IN \A axis \in 1..2 :
                 FracEQ(calc.out[axis],
                        FracAdd(uncalibrated[axis], calc.before.gaze_offset[axis]))

\* an estimate made off-centre under an offset that is non-zero on both axes
C19_Witness ==
    /\ calc.fn = "gaze_direction"
    /\ calc.before.gaze_offset[1][1] # 0
    /\ calc.before.gaze_offset[2][1] # 0
    /\ calc.before.gaze_offset[1] # calc.before.gaze_offset[2]
    /\ calc.left_gaze_vector # <<0, 0>>
    /\ calc.left_gaze_vector # calc.right_gaze_vector

\* C20: whenever the gaze history holds fewer than two samples (empty, one
\* sample, right after a reset) the fixation duration and the saccade amplitude
\* are both 0, in the frame's gaze data and when the two metrics are evaluated
\* on their own.
C20_ShortHistory ==
    (calc.fn \in {"process_frame", "metrics"} /\ Len(analyzer.gaze_history) < 2)
        => /\ calc.out.fixation_duration = 0
           /\ calc.out.saccade_amplitude_sq[1] = 0

\* the first sample after a reset that discarded a history of two or more
C20_Witness ==
    /\ calc.fn = "process_frame"
    /\ calc.out.face_detected
    /\ calc.cleared >= 2
    /\ Len(analyzer.gaze_history) = 1
    /\ analyzer.gaze_history[1] # << <<0, 1>>, <<0, 1>> >>

\* the last n entries of a sequence (all of them when it is shorter)
LastN(s, n) == SubSeq(s, IF Len(s) > n THEN Len(s) - n + 1 ELSE 1, Len(s))

C22_EmptySummaryNeutral ==
    (calc.fn = "analyze_face"
        /\ \A key \in DOMAIN calc.face_results : calc.face_results[key].empty)
        => /\ calc.out.face_preference_score[1] = 0
           /\ calc.out.risk_level # "high"

\* C22 (second half): an analysis over no completed test type yields the
\* default tier and confidence 0.
C22_NoSummaries ==
    (calc.fn = "analysis" /\ calc.out.tests_completed = {})
        => /\ calc.out.overall_risk_level = "insufficient_data"
           /\ calc.out.confidence_level[1] = 0

\* squared distance below / at most 50 px
Below50(p, q) == DistSq(p, q)[1] < 2500 * DistSq(p, q)[2]
AtMost50(p, q) == DistSq(p, q)[1] <= 2500 * DistSq(p, q)[2]

\* the number of consecutive pairs (h[i], h[i+1]), counted back from the newest
\* sample, that lie strictly below 50 px apart
ConsecutivePairs(h) ==
    Cardinality({ i \in 1..(Len(h) - 1) :
                    \A j \in i..(Len(h) - 1) : Below50(h[j], h[j + 1]) })

\* the number of earlier samples, counted back from the newest sample, that lie
\* at most 50 px from the newest sample
AnchoredSamples(h) ==
    Cardinality({ i \in 1..(Len(h) - 1) :
                    \A j \in i..(Len(h) - 1) : AtMost50(h[Len(h)], h[j]) })

\* C23 as stated: the fixation duration is 33 ms times the number of
\* consecutive sample pairs, counted back from the newest sample, whose
\* distance is strictly below 50 px.
C23_ConsecutivePairs ==
    calc.fn = "metrics"
        => calc.out.fixation_duration = 33 * ConsecutivePairs(analyzer.gaze_history)

\* C23 amended: the fixation duration is 33 ms times the number of earlier
\* samples, counted back from the newest sample, whose distance to the newest
\* sample is at most 50 px; samples alternating between (100,100) and (500,500)
\* give 0.
C23_AnchoredToNewest ==
    calc.fn = "metrics"
        => LET h == analyzer.gaze_history IN
           /\ calc.out.fixation_duration = 33 * AnchoredSamples(h)
           /\ (Len(h) >= 2
                 /\ \A i \in 1..Len(h) :
                       h[i] = IF i % 2 = 1 THEN << <<100, 1>>, <<100, 1>> >>
                              ELSE << <<500, 1>>, <<500, 1>> >>)
                 => calc.out.fixation_duration = 0

\* the newest sample exactly 50 px from the one before and farther from the
\* oldest: one earlier sample counts
C23_Witness ==
    /\ calc.fn = "metrics"
    /\ Len(analyzer.gaze_history) = 3
    /\ analyzer.gaze_history[3] = << <<130, 1>>, <<140, 1>> >>
    /\ analyzer.gaze_history[2] = << <<100, 1>>, <<100, 1>> >>
    /\ analyzer.gaze_history[1] = << <<180, 1>>, <<100, 1>> >>
    /\ calc.out.fixation_duration = 33

\* C24: a frame without a detected face is answered with face_detected = FALSE
\* and leaves the analyzer exactly as it was: gaze history, eye-contact history
\* and calibration offset, hence everything the next frame's metrics depend on.
C24_NoFaceFrame ==
    [][(calc'.fn = "process_frame" /\ ~calc'.out.face_detected)
          => /\ analyzer' = analyzer
             /\ calc'.out.fixation_duration = 0
             /\ calc'.out.saccade_amplitude_sq[1] = 0]_vars

\* a frame without a face reached a calibrated analyzer holding two samples
C24_Witness ==
    /\ calc.fn = "process_frame"
    /\ ~calc.out.face_detected
    /\ analyzer.is_calibrated
    /\ analyzer.gaze_offset # ZeroOffset
    /\ Len(analyzer.gaze_history) = 2
    /\ Len(analyzer.eye_contact_history) = 2
    /\ analyzer.gaze_history[1] # analyzer.gaze_history[2]

\* the non-empty phase results among the stored ones
NonEmptyKeys(res) == { key \in DOMAIN res : ~res[key].empty }

RECURSIVE SumField(_, _, _)
SumField(res, keys, accuracy) ==
    IF keys = {} THEN 0
    ELSE LET key == CHOOSE x \in keys : TRUE IN
         (IF accuracy THEN res[key].tracking_accuracy ELSE res[key].smooth_pursuit_quality)
         + SumField(res, keys \ {key}, accuracy)

\* mean of a field over the non-empty results is at least t tenths
\* (a mean over no results counts as 0)
MeanAtLeast(res, accuracy, t) ==
    LET n == Cardinality(NonEmptyKeys(res)) IN
    IF n = 0 THEN FALSE ELSE SumField(res, NonEmptyKeys(res), accuracy) >= t * n

\* C25: the motion tier is low iff mean accuracy >= 0.7 and mean pursuit
\* quality >= 0.5; otherwise moderate iff accuracy >= 0.5 or pursuit >= 0.3;
\* otherwise high.
C25_MotionTier ==
    calc.fn = "analyze_motion"
        => LET res == calc.motion_results
               isLow == MeanAtLeast(res, TRUE, 7) /\ MeanAtLeast(res, FALSE, 5)
               isMod == ~isLow /\ (MeanAtLeast(res, TRUE, 5) \/ MeanAtLeast(res, FALSE, 3))
           IN /\ calc.out.risk_level \in {"low", "moderate", "high"}
              /\ (calc.out.risk_level = "low") <=> isLow
              /\ (calc.out.risk_level = "moderate") <=> isMod
              /\ (calc.out.risk_level = "high")
                    <=> (~MeanAtLeast(res, TRUE, 5) /\ ~MeanAtLeast(res, FALSE, 3))

\* two phases with mean accuracy 0.2 and mean pursuit quality exactly 0.3:
\* moderate through the pursuit score alone, at its boundary
C25_Witness ==
    /\ calc.fn = "analyze_motion"
    /\ DOMAIN calc.motion_results = {0, 1}
    /\ ~calc.motion_results[0].empty
    /\ ~calc.motion_results[1].empty
    /\ calc.motion_results[0].tracking_accuracy + calc.motion_results[1].tracking_accuracy = 4
    /\ calc.motion_results[0].smooth_pursuit_quality
           + calc.motion_results[1].smooth_pursuit_quality = 6
    /\ calc.out.risk_level = "moderate"

\* C26: in a motion phase the first five samples produce no pursuit value and
\* every sample from the sixth on produces one, so n >= 5 samples yield n - 5
\* values (proc.c2 counts the pursuit values of the motion processor).
C26_PursuitFromSixth ==
    proc.test_active
        => proc.c2 = IF Len(proc.gaze_data) >= 5 THEN Len(proc.gaze_data) - 5 ELSE 0

\* what the processor does: the first six samples produce no value
C26_PursuitFromSeventh ==
    proc.test_active
        => proc.c2 = IF Len(proc.gaze_data) >= 6 THEN Len(proc.gaze_data) - 6 ELSE 0

RECURSIVE SumWeights(_)
SumWeights(qs) ==
    IF qs = {} THEN 0
    ELSE LET q == CHOOSE x \in qs : TRUE IN questionnaire_weights[q] + SumWeights(qs \ {q})

RECURSIVE SumWeighted(_, _)
SumWeighted(answers, qs) ==
    IF qs = {} THEN 0
    ELSE LET q == CHOOSE x \in qs : TRUE IN
         questionnaire_weights[q] * answers[q] + SumWeighted(answers, qs \ {q})

\* C27: every domain score is the weighted mean of the answered items of the
\* domain, sum(weight x response) / sum(weight), and 0 when no item of the
\* domain is answered.
C27_WeightedDomainMean ==
    calc.fn = "domain_scores"
        => \A d \in DOMAIN domains :
              LET answered == domains[d] \cap DOMAIN calc.answers IN
              IF answered = {} THEN calc.out[d][1] = 0
              ELSE calc.out[d][1] * SumWeights(answered)
                       = SumWeighted(calc.answers, answered) * calc.out[d][2]

\* what the code computes: the plain mean of the answered items of the domain
C27_PlainDomainMean ==
    calc.fn = "domain_scores"
        => \A d \in DOMAIN domains :
              LET answered == domains[d] \cap DOMAIN calc.answers IN
              IF answered = {} THEN calc.out[d][1] = 0
              ELSE calc.out[d][1] * Cardinality(answered)
                       = SumAnswers(calc.answers, answered) * calc.out[d][2]

\* C28: on the camera pages the stored results hold exactly one entry per
\* completed phase, keyed 0 .. cursor-1, and no step overwrites or removes an
\* entry once it is stored.
C28_OneEntryPerPhase ==
    [][(kind \in CameraKinds)
          => /\ DOMAIN test_results = 0..(test_phase - 1)
             /\ DOMAIN test_results' = 0..(test_phase' - 1)
             /\ \A key \in DOMAIN test_results :
                   key \in DOMAIN test_results' /\ test_results'[key] = test_results[key]]_vars

\* two phases completed, the first with samples and the second without
C28_Witness ==
    /\ kind \in CameraKinds
    /\ test_phase = 2
    /\ DOMAIN test_results = {0, 1}
    /\ ~test_results[0].empty
    /\ test_results[1].empty
    /\ last.op = "stop"

\* C29: on the camera pages the page's active flag and the collecting flag of
\* the processor currently attached always agree: the session is active exactly
\* when a processor is attached and collecting.
C29_FlagsAgree ==
    (kind \in CameraKinds) => (session_active <=> (hasProc /\ proc.test_active))

\* C30: the rule-based risk level is Low exactly when at most one risk factor
\* fired, it is Elevated only when at least three fired, and the reported
\* risk score lies between 0 and 1.
C30_RiskLevelByFactors ==
    calc.fn = "risk_assessment"
        => /\ (calc.out.risk_level = "Low") <=> (Cardinality(calc.out.risk_factors) <= 1)
           /\ (calc.out.risk_level = "Elevated") => (Cardinality(calc.out.risk_factors) >= 3)
           /\ calc.out.risk_score >= 0
           /\ calc.out.risk_score <= 1000

\* the two heaviest factors together reach a score of exactly 0.6: Moderate
C30_Witness ==
    /\ calc.fn = "risk_assessment"
    /\ calc.out.risk_factors = {"Low social communication scores",
                                "Machine learning model indicates elevated risk"}
    /\ calc.out.risk_score = 600
    /\ calc.out.risk_level = "Moderate"

====
